---- MODULE Spec2Model ----
(***************************************************************************)
(* The WebSocket push server of src/src/server.py (class WebSocketServer): *)
(* the connection registry, the per-client playback task tables, the       *)
(* "currently playing" pointers, one receive loop (handle_client /         *)
(* process_message) per connection and one simulate_playback coroutine per *)
(* started action group, scheduled by a single-threaded asyncio loop.      *)
(*                                                                         *)
(* One action of the model is one uninterrupted run of a coroutine between *)
(* two suspension points (an await that yields).  websocket.send writes    *)
(* the frame when it is called and may then suspend until the transport    *)
(* has drained; on a closed connection it raises ConnectionClosed.         *)
(* task.cancel() makes the cancelled task's pending await raise            *)
(* CancelledError when the task is next scheduled.                         *)
(***************************************************************************)
EXTENDS Integers, FiniteSets, Sequences, TLC

\* ---- bounds of the model ----
NumClients == 3
MaxFrames == 2
MaxTasks == 2
MaxKey == 2
MaxMsg == 1

\* ---- program constants ----
MinSteps == 5
MaxSteps == 10
Scale == 1000

None == -1

\* random.randint(MinSteps, MaxSteps)
AllStepCounts == MinSteps..MaxSteps
\* the step counts drawn where the sessions interleave: the shortest playback
ShortStepCounts == {MinSteps}

Clients == 1..NumClients
\* the connections that are opened where every kind of frame is drawn
SessionClients == 1..(NumClients - 1)
Keys == 0..MaxKey
TaskIds == 1..MaxTasks
OptKeys == Keys \cup {None}
\* the `message` field of a frame; 0 is the empty string, which is also what
\* data.get('message', '') gives for a frame without the field
Msgs == 0..MaxMsg

VARIABLES
    conn,                     \* transport of each connection: "open" | "closed"
    hpc,                      \* position of each connection's handle_client coroutine
    frame,                    \* the frame a handler is processing
    bpend,                    \* recipients of a broadcast being gathered
    nframes,                  \* frames received so far (bounded by MaxFrames)
    connected_clients,        \* self.connected_clients
    client_playback_tasks,    \* self.client_playback_tasks
    client_current_playing,   \* self.client_current_playing
    task,                     \* the simulate_playback coroutines
    ev,                       \* events written to the connections by the last step
    bfail,                    \* recipients whose broadcast send failed in the last step
    eff,                      \* handlers whose command changed server state in the last step
    acks,                     \* 'processed' acks written for the frame being processed
    handled,                  \* the frame whose dispatch the last step completed, and its handler
    failed,                   \* events a playback task tried to send in the last step, the send raising
    teardowns                 \* times the finally block of handle_client ran

vars == <<conn, hpc, frame, bpend, nframes, connected_clients, client_playback_tasks,
          client_current_playing, task, ev, bfail, eff, acks, handled, failed, teardowns>>

\* ---- frames ----
KeyedTypes == {"actionStart", "actionStop"}
\* "unknown" is a frame without a type field (data.get('type', 'unknown')),
\* "ping" a type the server does not recognise
UnknownTypes == {"unknown", "ping"}
MessageTypes == {"echo", "broadcast"}
PlainTypes == {"actionReset", "get_server_info", "heartbeat"} \cup MessageTypes \cup UnknownTypes
BadTypes == {"notjson", "nonobject"}

Frames ==
    {[type |-> t, key |-> k, msg |-> 0] : t \in KeyedTypes, k \in OptKeys}
    \cup {[type |-> t, key |-> None, msg |-> m] : t \in MessageTypes, m \in Msgs}
    \cup {[type |-> t, key |-> None, msg |-> 0] : t \in (PlainTypes \ MessageTypes) \cup BadTypes}

NoFrame == [type |-> "none", key |-> None, msg |-> 0]

\* a test that takes any key, an absent one included
FalsyNever(k) == FALSE

\* `not action_group_id`: None and 0 are falsy
Falsy(k) == k = None \/ k = 0

\* ---- events ----
Event(c, type, st, key, t, val, by) ==
    [conn |-> c, type |-> type, st |-> st, key |-> key, task |-> t, val |-> val, by |-> by]

\* websocket.send: the frame is written if the connection is open, else it raises
Send(c, e) == IF conn[c] = "open" THEN {e} ELSE {}

\* ---- partial functions (Python dicts) ----
Drop(f, x) == [y \in DOMAIN f \ {x} |-> f[y]]
Put(f, x, v) == [y \in DOMAIN f \cup {x} |-> IF y = x THEN v ELSE f[y]]
EmptyDict == [y \in {} |-> 0]

\* ---- the mutable state of the server object ----
FreeTask == [pc |-> "free", client |-> 0, key |-> None, n |-> 0, i |-> 0,
             cancel |-> FALSE, was |-> FALSE, sup |-> FALSE]

Server == [task |-> task, cpt |-> client_playback_tasks,
           ccp |-> client_current_playing, reg |-> connected_clients,
           td |-> teardowns]

Commit(s) ==
    /\ task' = s.task
    /\ client_playback_tasks' = s.cpt
    /\ client_current_playing' = s.ccp
    /\ connected_clients' = s.reg
    /\ teardowns' = s.td

HasTask(s, c, k) == c \in DOMAIN s.cpt /\ k \in DOMAIN s.cpt[c]

\* a cleanup that forgets to cancel the task it removes
CancelTaskSkipped(tk, t) == tk

\* `if not task.done(): task.cancel()`
CancelTask(tk, t) ==
    IF tk[t].pc # "free" THEN [tk EXCEPT ![t].cancel = TRUE, ![t].was = TRUE] ELSE tk

\* a cleanup that removes the task but leaves the pointer on its key
CleanupKeepsPointer(s, c, k) ==
    IF c \in DOMAIN s.cpt
    THEN LET a == IF k \in DOMAIN s.cpt[c]
                  THEN [s EXCEPT !.task = CancelTask(s.task, s.cpt[c][k]),
                                 !.cpt = Put(s.cpt, c, Drop(s.cpt[c], k))]
                  ELSE s
         IN IF DOMAIN a.cpt[c] = {} THEN [a EXCEPT !.cpt = Drop(a.cpt, c)] ELSE a
    ELSE s

\* a cleanup that looks the task up by action group alone: it cancels and
\* removes the tasks of that key in every session
CleanupAcrossSessions(s, c, k) ==
    LET hit == {d \in DOMAIN s.cpt : k \in DOMAIN s.cpt[d]}
        tk == [t \in TaskIds |->
                 IF (\E d \in hit : s.cpt[d][k] = t) /\ s.task[t].pc # "free"
                 THEN [s.task[t] EXCEPT !.cancel = TRUE, !.was = TRUE]
                 ELSE s.task[t]]
        tabs == [d \in DOMAIN s.cpt |-> Drop(s.cpt[d], k)]
        kept == {d \in DOMAIN tabs : d \in hit \cup {c} => DOMAIN tabs[d] # {}}
    IN [s EXCEPT !.task = tk,
                 !.cpt = [d \in kept |-> tabs[d]],
                 !.ccp = [d \in DOMAIN s.ccp |-> IF s.ccp[d] = k THEN None ELSE s.ccp[d]]]

\* _cleanup_playback_task
CleanupPlaybackTask(s, c, k) ==
    LET s1 == IF c \in DOMAIN s.cpt
              THEN LET a == IF k \in DOMAIN s.cpt[c]
                            THEN [s EXCEPT !.task = CancelTask(s.task, s.cpt[c][k]),
                                           !.cpt = Put(s.cpt, c, Drop(s.cpt[c], k))]
                            ELSE s
                   IN IF DOMAIN a.cpt[c] = {} THEN [a EXCEPT !.cpt = Drop(a.cpt, c)] ELSE a
              ELSE s
    IN IF c \in DOMAIN s1.ccp /\ s1.ccp[c] = k THEN [s1 EXCEPT !.ccp[c] = None] ELSE s1

RECURSIVE CleanupAll(_, _, _)
CleanupAll(s, c, ks) ==
    IF ks = {} THEN s
    ELSE LET k == CHOOSE x \in ks : TRUE
         IN CleanupAll(CleanupPlaybackTask(s, c, k), c, ks \ {k})

\* the finally block of handle_client
RECURSIVE CancelAll(_, _)
CancelAll(tk, ts) ==
    IF ts = {} THEN tk
    ELSE LET t == CHOOSE x \in ts : TRUE IN CancelAll(CancelTask(tk, t), ts \ {t})

\* a finally block that only unregisters the connection
TeardownLeaksTasks(s, c) ==
    [s EXCEPT !.reg = s.reg \ {c}, !.td[c] = s.td[c] + 1]

\* a finally block that forgets the registry
TeardownKeepsRegistration(s, c) ==
    LET s1 == IF c \in DOMAIN s.cpt
              THEN [s EXCEPT !.task = CancelAll(s.task, {s.cpt[c][k] : k \in DOMAIN s.cpt[c]}),
                             !.cpt = Drop(s.cpt, c)]
              ELSE s
        s2 == IF c \in DOMAIN s1.ccp THEN [s1 EXCEPT !.ccp = Drop(s1.ccp, c)] ELSE s1
    IN [s2 EXCEPT !.td[c] = s2.td[c] + 1]

Teardown(s, c) ==
    LET s1 == IF c \in DOMAIN s.cpt
              THEN [s EXCEPT !.task = CancelAll(s.task, {s.cpt[c][k] : k \in DOMAIN s.cpt[c]}),
                             !.cpt = Drop(s.cpt, c)]
              ELSE s
        s2 == IF c \in DOMAIN s1.ccp THEN [s1 EXCEPT !.ccp = Drop(s1.ccp, c)] ELSE s1
    IN [s2 EXCEPT !.reg = s2.reg \ {c}, !.td[c] = s2.td[c] + 1]

\* ---- simulate_playback ----
\* a progress value computed from i instead of i + 1
ProgressValueOffByOne(i, n) ==
    LET v == (i * 100 * Scale) \div n
    IN IF v < 100 * Scale THEN v ELSE 100 * Scale

\* min(100.0, (i + 1) * 100.0 / progress_steps), in thousandths, rounded down
ProgressValue(i, n) ==
    LET v == ((i + 1) * 100 * Scale) \div n
    IN IF v < 100 * Scale THEN v ELSE 100 * Scale

\* a coroutine that never returns
FinishNever(s, t) == s

\* the coroutine returns (or an exception leaves it): the task is done
Finish(s, t) == [s EXCEPT !.task[t] = FreeTask]

\* after the for loop: the liveness re-check, actionEnd and the cleanup
\* (s: the state left, out: the event written, lost: the event whose send raised)
AfterLoop(s, t) ==
    LET c == s.task[t].client
        k == s.task[t].key
        end == Event(c, "actionEnd", "", k, t, 100 * Scale, 0)
        out == Send(c, end)
    IN IF HasTask(s, c, k)
       THEN IF out # {}
            THEN [s |-> [s EXCEPT !.task[t].pc = "sendEnd", !.task[t].i = 0],
                  out |-> out, lost |-> {}]
            ELSE [s |-> Finish(CleanupPlaybackTask(s, c, k), t), out |-> {}, lost |-> {end}]
       ELSE [s |-> Finish(s, t), out |-> {}, lost |-> {}]

\* the top of iteration i of the for loop, up to the await of the progress send
LoopTop(s, t, i) ==
    LET c == s.task[t].client
        k == s.task[t].key
        n == s.task[t].n
        msg == Event(c, "progress", "", k, t, ProgressValue(i, n), 0)
        out == Send(c, msg)
    IN IF i >= n THEN AfterLoop(s, t)
       ELSE IF ~HasTask(s, c, k) THEN [s |-> Finish(s, t), out |-> {}, lost |-> {}]
       ELSE IF out = {} THEN [AfterLoop(s, t) EXCEPT !.lost = @ \cup {msg}]
       ELSE [s |-> [s EXCEPT !.task[t].pc = "send", !.task[t].i = i], out |-> out,
             lost |-> {}]

PlaybackRun(r) ==
    /\ Commit(r.s)
    /\ ev' = r.out
    /\ bfail' = {}
    /\ eff' = {}
    /\ handled' = {}
    /\ failed' = r.lost
    /\ UNCHANGED <<conn, hpc, frame, bpend, nframes, acks>>

\* the progress event whose send task t is waiting on
Pending(t) ==
    Event(task[t].client, "progress", "", task[t].key, t, ProgressValue(task[t].i, task[t].n), 0)

\* first scheduling of the task created by asyncio.create_task
PlaybackStart(t) ==
    /\ task[t].pc = "new"
    /\ IF task[t].cancel
       THEN PlaybackRun([s |-> Finish(Server, t), out |-> {}, lost |-> {}])
       ELSE PlaybackRun(LoopTop(Server, t, 0))

\* asyncio.sleep returns, or raises CancelledError, which nothing catches
PlaybackWake(t) ==
    /\ task[t].pc = "sleep"
    /\ IF task[t].cancel
       THEN PlaybackRun([s |-> Finish(Server, t), out |-> {}, lost |-> {}])
       ELSE PlaybackRun(LoopTop(Server, t, task[t].i + 1))

\* the progress send returns: on to asyncio.sleep
PlaybackSendDone(t) ==
    /\ task[t].pc = "send"
    /\ ~task[t].cancel
    /\ PlaybackRun([s |-> [Server EXCEPT !.task[t].pc = "sleep"], out |-> {}, lost |-> {}])

\* the progress send raises (connection lost while draining): except, break
PlaybackSendFails(t) ==
    /\ task[t].pc = "send"
    /\ ~task[t].cancel
    /\ conn[task[t].client] # "open"
    /\ PlaybackRun([AfterLoop(Server, t) EXCEPT !.lost = @ \cup {Pending(t)}])

\* the progress send raises CancelledError: the bare except swallows it, break
PlaybackSendCancelled(t) ==
    /\ task[t].pc = "send"
    /\ task[t].cancel
    /\ PlaybackRun(AfterLoop([Server EXCEPT !.task[t].cancel = FALSE], t))

\* the actionEnd send returns or raises (bare except): the cleanup runs
PlaybackEndDone(t) ==
    /\ task[t].pc = "sendEnd"
    /\ PlaybackRun([s |-> Finish(CleanupPlaybackTask(Server, task[t].client, task[t].key), t),
                    out |-> {}, lost |-> {}])

\* ---- process_message ----
\* a dispatch that does not acknowledge first
AckEventsOmitted(c, f) == {}

\* send_ack: the first send of process_message for a frame that parsed
AckEvents(c, f) == {Event(c, "ack", "processed", None, 0, 0, c)}

\* the JSONDecodeError branch: its error ack, then its error event
ErrorAck(c) == Event(c, "ack", "error", None, 0, 0, c)
InvalidJson(c) == Event(c, "error", "invalid-json", None, 0, 0, c)

MissingKey(c) == Event(c, "error", "missing", None, 0, 0, c)

\* _stop_all_playback: the state it leaves and the event it sends
StopAllPlayback(s, c) ==
    IF c \notin DOMAIN s.cpt
    THEN [s |-> s, msg |-> {}]
    ELSE [s |-> CleanupAll(s, c, DOMAIN s.cpt[c]),
          msg |-> {Event(c, "actionResetAck", "reset", 0, 0, 0, c)}]

\* the actionStop branch
ActionStop(s, c, k) ==
    IF Falsy(k) THEN [s |-> s, msg |-> {MissingKey(c)}]
    ELSE IF HasTask(s, c, k)
    THEN [s |-> CleanupPlaybackTask(s, c, k),
          msg |-> {Event(c, "actionStopAck", "stopped", k, 0, 0, c)}]
    ELSE [s |-> s, msg |-> {Event(c, "error", "not-found", k, 0, 0, c)}]

\* an echo that loses the message text
EchoResponseBlank(c, f) == Event(c, "echo_response", "", None, 0, 0, c)

\* the echo branch: original_message is data.get('message', '')
EchoResponse(c, f) == Event(c, "echo_response", "", None, 0, f.msg, c)

\* an unrecognised type answered as an error
UnknownCommandAsError(c, f) == Event(c, "error", f.type, f.key, 0, f.msg, c)

\* the else branch: received_message is the whole of data
UnknownCommand(c, f) == Event(c, "unknown_command", f.type, f.key, 0, f.msg, c)

\* the branches of process_message that create no task and fan nothing out:
\* the server state they leave and the event they send to the sender
Handle(s, c, f) ==
    CASE f.type = "actionStart" -> [s |-> s, msg |-> {MissingKey(c)}]
      [] f.type = "actionStop" -> ActionStop(s, c, f.key)
      [] f.type = "actionReset" -> StopAllPlayback(s, c)
      [] f.type = "echo" -> [s |-> s, msg |-> {EchoResponse(c, f)}]
      [] f.type = "get_server_info" ->
            [s |-> s, msg |-> {Event(c, "server_info", "", None, 0, Cardinality(s.reg), c)}]
      [] f.type = "heartbeat" -> [s |-> s, msg |-> {Event(c, "heartbeatAck", "alive", None, 0, 0, c)}]
      [] OTHER -> [s |-> s, msg |-> {UnknownCommand(c, f)}]

\* an actionStart that leaves the session's current task running
ActionStartKeepsPrevious(s, c, k, t, n) ==
    LET new == [pc |-> "new", client |-> c, key |-> k, n |-> n, i |-> 0,
                cancel |-> FALSE, was |-> FALSE, sup |-> FALSE]
        tab == IF c \in DOMAIN s.cpt THEN s.cpt[c] ELSE EmptyDict
    IN [s |-> [s EXCEPT !.task[t] = new,
                        !.cpt = Put(s.cpt, c, Put(tab, k, t)),
                        !.ccp = Put(s.ccp, c, k)],
        msg |-> {Event(c, "actionStartAck", "started", k, t, 0, c)}]

\* the actionStart branch with a truthy key: stop the current task, create and
\* register task t (n progress steps), move the pointer, send actionStartAck
ActionStart(s, c, k, t, n) ==
    LET s1 == IF c \in DOMAIN s.ccp /\ s.ccp[c] # None /\ HasTask(s, c, s.ccp[c])
              THEN CleanupPlaybackTask(s, c, s.ccp[c])
              ELSE s
        new == [pc |-> "new", client |-> c, key |-> k, n |-> n, i |-> 0,
                cancel |-> FALSE, was |-> FALSE, sup |-> FALSE]
        tab == IF c \in DOMAIN s1.cpt THEN s1.cpt[c] ELSE EmptyDict
    IN [s |-> [s1 EXCEPT !.task[t] = new,
                         !.cpt = Put(s1.cpt, c, Put(tab, k, t)),
                         !.ccp = Put(s1.ccp, c, k)],
        msg |-> {Event(c, "actionStartAck", "started", k, t, 0, c)}]

\* the tasks an accepted actionStart of client c supersedes: the live playback
\* loops of the session's current action group
Superseded(c) ==
    {t \in TaskIds : /\ task[t].pc # "free"
                     /\ task[t].client = c
                     /\ c \in DOMAIN client_current_playing
                     /\ task[t].key = client_current_playing[c]}

MarkSuperseded(s, ts) ==
    [s EXCEPT !.task = [t \in TaskIds |->
        IF t \in ts /\ s.task[t].pc # "free" THEN [s.task[t] EXCEPT !.sup = TRUE]
        ELSE s.task[t]]]

\* ---- handle_client ----
\* an exception or the end of the stream leaves the try block: finally runs,
\* handle_client returns and the websockets library closes the connection
HandlerExit(c, s) ==
    /\ Commit(Teardown(s, c))
    /\ hpc' = [hpc EXCEPT ![c] = "done"]
    /\ bpend' = [bpend EXCEPT ![c] = {}]
    /\ acks' = [acks EXCEPT ![c] = 0]
    /\ ev' = {}
    /\ conn' = [conn EXCEPT ![c] = "closed"]

\* the handler sent its response (or had none to send) and reads the next frame
HandlerNext(c, s, out) ==
    /\ Commit(s)
    /\ hpc' = [hpc EXCEPT ![c] = "idle"]
    /\ frame' = [frame EXCEPT ![c] = NoFrame]
    /\ bpend' = [bpend EXCEPT ![c] = {}]
    /\ acks' = [acks EXCEPT ![c] = 0]
    /\ ev' = out
    /\ UNCHANGED conn

\* the handler applied r.s and sends r.msg to its own connection: a send on a
\* closed connection raises ConnectionClosed, which ends handle_client
HandlerReply(c, r) ==
    LET out == UNION {Send(c, e) : e \in r.msg}
    IN /\ eff' = IF r.s # Server THEN {c} ELSE {}
       /\ handled' = {[by |-> c, frame |-> frame[c]]}
       /\ failed' = {}
       /\ bfail' = {}
       /\ UNCHANGED nframes
       /\ IF r.msg # {} /\ out = {}
          THEN HandlerExit(c, r.s) /\ frame' = [frame EXCEPT ![c] = NoFrame]
          ELSE HandlerNext(c, r.s, out)

\* a handler that yields to the event loop between registering the connection
\* and sending the welcome
AcceptRegistersOnly(c) ==
    /\ hpc[c] = "init"
    /\ c \notin connected_clients
    /\ Commit([Server EXCEPT !.reg = @ \cup {c},
                             !.cpt = Put(@, c, EmptyDict),
                             !.ccp = Put(@, c, None)])
    /\ ev' = {}
    /\ eff' = {}
    /\ handled' = {}
    /\ failed' = {}
    /\ bfail' = {}
    /\ UNCHANGED <<conn, hpc, frame, bpend, nframes, acks>>

\* handle_client up to its first await: register, initialise, send welcome
Accept(c) ==
    /\ hpc[c] = "init"
    /\ LET s == [Server EXCEPT !.reg = @ \cup {c},
                               !.cpt = Put(@, c, EmptyDict),
                               !.ccp = Put(@, c, None)]
           out == Send(c, Event(c, "welcome", "connected", None, 0, 0, c))
       IN IF out = {} THEN HandlerExit(c, s) /\ UNCHANGED frame
          ELSE HandlerNext(c, s, out)
    /\ eff' = {}
    /\ handled' = {}
    /\ failed' = {}
    /\ bfail' = {}
    /\ UNCHANGED nframes

\* a receive loop that reads the next frame while the last one is still
\* being processed (process_message run as a task of its own)
RecvFrameEarly(c, f) ==
    /\ hpc[c] \in {"idle", "acked"}
    /\ conn[c] = "open"
    /\ nframes < MaxFrames
    /\ f.type # "nonobject"
    /\ nframes' = nframes + 1
    /\ frame' = [frame EXCEPT ![c] = f]
    /\ IF f.type = "notjson"
       THEN /\ hpc' = [hpc EXCEPT ![c] = "errack"]
            /\ ev' = Send(c, ErrorAck(c))
       ELSE /\ hpc' = [hpc EXCEPT ![c] = "acked"]
            /\ ev' = AckEvents(c, f)
    /\ acks' = [acks EXCEPT ![c] = Cardinality({e \in ev' : e.type = "ack" /\ e.st = "processed"})]
    /\ bfail' = {}
    /\ eff' = {}
    /\ handled' = {}
    /\ failed' = {}
    /\ UNCHANGED <<conn, bpend, connected_clients, client_playback_tasks,
                   client_current_playing, task, teardowns>>

\* a frame arrives: json.loads, then send_ack or the JSONDecodeError branch
RecvFrame(c, f) ==
    /\ hpc[c] = "idle"
    /\ conn[c] = "open"
    /\ nframes < MaxFrames
    /\ f.type # "nonobject"
    /\ nframes' = nframes + 1
    /\ frame' = [frame EXCEPT ![c] = f]
    /\ IF f.type = "notjson"
       THEN /\ hpc' = [hpc EXCEPT ![c] = "errack"]
            /\ ev' = Send(c, ErrorAck(c))
       ELSE /\ hpc' = [hpc EXCEPT ![c] = "acked"]
            /\ ev' = AckEvents(c, f)
    /\ acks' = [acks EXCEPT ![c] = Cardinality({e \in ev' : e.type = "ack" /\ e.st = "processed"})]
    /\ bfail' = {}
    /\ eff' = {}
    /\ handled' = {}
    /\ failed' = {}
    /\ UNCHANGED <<conn, bpend, connected_clients, client_playback_tasks,
                   client_current_playing, task, teardowns>>

\* a frame that is JSON but no object: data.get raises AttributeError, which
\* process_message does not catch; handle_client logs it and runs finally
RecvNonObject(c) ==
    /\ hpc[c] = "idle"
    /\ conn[c] = "open"
    /\ nframes < MaxFrames
    /\ nframes' = nframes + 1
    /\ frame' = [frame EXCEPT ![c] = [type |-> "nonobject", key |-> None, msg |-> 0]]
    /\ eff' = {}
    /\ handled' = {}
    /\ failed' = {}
    /\ bfail' = {}
    /\ HandlerExit(c, Server)

\* the second send of the JSONDecodeError branch
DispatchInvalid(c) ==
    /\ hpc[c] = "errack"
    /\ HandlerReply(c, [s |-> Server, msg |-> {InvalidJson(c)}])

FreeSlot == CHOOSE t \in TaskIds : task[t].pc = "free" /\ \A u \in TaskIds : task[u].pc = "free" => t <= u

\* dispatch of an actionStart frame whose key is truthy
DispatchStart(c, n) ==
    /\ hpc[c] = "acked"
    /\ frame[c].type = "actionStart"
    /\ ~Falsy(frame[c].key)
    /\ \E t \in TaskIds : task[t].pc = "free"
    /\ LET r == ActionStart(MarkSuperseded(Server, Superseded(c)), c, frame[c].key, FreeSlot, n)
       IN HandlerReply(c, r)

\* a dispatch that has to wait while a playback is in its delay (a delay that
\* blocks the event loop, time.sleep)
DispatchAfterDelay(c) ==
    /\ \A t \in TaskIds : task[t].pc # "sleep"
    /\ hpc[c] = "acked"
    /\ frame[c].type # "broadcast"
    /\ frame[c].type = "actionStart" => Falsy(frame[c].key)
    /\ HandlerReply(c, Handle(Server, c, frame[c]))

\* dispatch of every other frame but broadcast
Dispatch(c) ==
    /\ hpc[c] = "acked"
    /\ frame[c].type # "broadcast"
    /\ frame[c].type = "actionStart" => Falsy(frame[c].key)
    /\ HandlerReply(c, Handle(Server, c, frame[c]))

\* a fan-out that does not leave the sender out
RecipientsWithSender(c) == connected_clients

\* `for client in self.connected_clients: if client != sender`
Recipients(c) == connected_clients \ {c}

\* broadcast_message up to its await: one send coroutine per registered
\* connection but the sender, handed to asyncio.gather
DispatchBroadcast(c) ==
    /\ hpc[c] = "acked"
    /\ frame[c].type = "broadcast"
    /\ LET rcpt == Recipients(c)
       IN IF rcpt = {}
          THEN /\ HandlerNext(c, Server, {})
               /\ eff' = {}
               /\ handled' = {[by |-> c, frame |-> frame[c]]}
               /\ failed' = {}
               /\ bfail' = {}
          ELSE /\ hpc' = [hpc EXCEPT ![c] = "bcast"]
               /\ bpend' = [bpend EXCEPT ![c] = rcpt]
               /\ eff' = {c}
               /\ handled' = {}
               /\ failed' = {}
               /\ ev' = {}
               /\ bfail' = {}
               /\ UNCHANGED <<conn, frame, acks, connected_clients, client_playback_tasks,
                              client_current_playing, task, teardowns>>
    /\ UNCHANGED nframes

\* a fan-out that loses the message text
BroadcastMsgBlank(r, c, f) == Event(r, "broadcast", "", None, 0, 0, c)

\* broadcast_msg as recipient r gets it: the message and from_client
BroadcastMsg(r, c, f) == Event(r, "broadcast", "", None, 0, f.msg, c)

\* a gather that raises the first failure into the sender's handler
BroadcastDeliverRaises(c) ==
    /\ hpc[c] = "bcast"
    /\ IF \E r \in bpend[c] : conn[r] # "open"
       THEN HandlerExit(c, Server) /\ frame' = [frame EXCEPT ![c] = NoFrame]
       ELSE HandlerNext(c, Server, UNION {Send(r, BroadcastMsg(r, c, frame[c])) : r \in bpend[c]})
    /\ bfail' = {r \in bpend[c] : conn[r] # "open"}
    /\ eff' = {}
    /\ handled' = {[by |-> c, frame |-> frame[c]]}
    /\ failed' = {}
    /\ UNCHANGED nframes

\* the gathered sends run; return_exceptions=True swallows their failures
BroadcastDeliver(c) ==
    /\ hpc[c] = "bcast"
    /\ HandlerNext(c, Server,
                   UNION {Send(r, BroadcastMsg(r, c, frame[c])) : r \in bpend[c]})
    /\ bfail' = {r \in bpend[c] : conn[r] # "open"}
    /\ eff' = {}
    /\ handled' = {[by |-> c, frame |-> frame[c]]}
    /\ failed' = {}
    /\ UNCHANGED nframes

\* `async for message in websocket` ends: the peer closed the connection
ExitEndOfStream(c) ==
    /\ hpc[c] = "idle"
    /\ conn[c] = "closed"
    /\ eff' = {}
    /\ handled' = {}
    /\ failed' = {}
    /\ bfail' = {}
    /\ UNCHANGED nframes
    /\ frame' = [frame EXCEPT ![c] = NoFrame]
    /\ HandlerExit(c, Server)

\* the pending receive or send raises ConnectionClosed
ExitConnectionClosed(c) ==
    /\ hpc[c] \in {"idle", "acked", "errack"}
    /\ conn[c] = "closed"
    /\ eff' = {}
    /\ handled' = {}
    /\ failed' = {}
    /\ bfail' = {}
    /\ UNCHANGED nframes
    /\ frame' = [frame EXCEPT ![c] = NoFrame]
    /\ HandlerExit(c, Server)

\* the handler task is cancelled (asyncio.run shutting down): CancelledError is
\* raised at its await, no except clause matches, finally runs
ExitCancelled(c) ==
    /\ hpc[c] \in {"idle", "acked", "errack", "bcast"}
    /\ eff' = {}
    /\ handled' = {}
    /\ failed' = {}
    /\ bfail' = {}
    /\ UNCHANGED nframes
    /\ frame' = [frame EXCEPT ![c] = NoFrame]
    /\ HandlerExit(c, Server)

\* ---- the environment ----
Quiet ==
    /\ ev' = {}
    /\ bfail' = {}
    /\ eff' = {}
    /\ handled' = {}
    /\ failed' = {}
    /\ UNCHANGED <<hpc, frame, bpend, nframes, connected_clients, client_playback_tasks,
                   client_current_playing, task, acks, teardowns>>

\* the peer closes the connection or the network drops it
Disconnect(c) ==
    /\ conn[c] = "open"
    /\ hpc[c] # "done"
    /\ conn' = [conn EXCEPT ![c] = "closed"]
    /\ Quiet

Init ==
    /\ conn = [c \in Clients |-> "open"]
    /\ hpc = [c \in Clients |-> "init"]
    /\ frame = [c \in Clients |-> NoFrame]
    /\ bpend = [c \in Clients |-> {}]
    /\ nframes = 0
    /\ connected_clients = {}
    /\ client_playback_tasks = EmptyDict
    /\ client_current_playing = EmptyDict
    /\ task = [t \in TaskIds |-> FreeTask]
    /\ ev = {}
    /\ bfail = {}
    /\ eff = {}
    /\ handled = {}
    /\ failed = {}
    /\ acks = [c \in Clients |-> 0]
    /\ teardowns = [c \in Clients |-> 0]

\* the steps of the server with connections cs, inbound frames fs (non-object
\* JSON frames if bad) and step counts ns
Step(cs, fs, bad, ns) ==
    \/ \E c \in cs : Accept(c)
    \/ \E c \in cs, f \in fs : RecvFrame(c, f)
    \/ \E c \in cs : bad /\ RecvNonObject(c)
    \/ \E c \in cs : DispatchInvalid(c)
    \/ \E c \in cs, n \in ns : DispatchStart(c, n)
    \/ \E c \in cs : Dispatch(c)
    \/ \E c \in cs : DispatchBroadcast(c)
    \/ \E c \in cs : BroadcastDeliver(c)
    \/ \E c \in cs : ExitEndOfStream(c)
    \/ \E c \in cs : ExitConnectionClosed(c)
    \/ \E c \in cs : ExitCancelled(c)
    \/ \E c \in cs : Disconnect(c)
    \/ \E t \in TaskIds : PlaybackStart(t)
    \/ \E t \in TaskIds : PlaybackWake(t)
    \/ \E t \in TaskIds : PlaybackSendDone(t)
    \/ \E t \in TaskIds : PlaybackSendFails(t)
    \/ \E t \in TaskIds : PlaybackSendCancelled(t)
    \/ \E t \in TaskIds : PlaybackEndDone(t)

Next == Step(SessionClients, Frames, TRUE, ShortStepCounts)

Spec == Init /\ [][Next]_vars

\* The broadcast hub among all connections: the frames are actionStart and
\* broadcast, the connections end by the peer closing them.
HubFrames ==
    {[type |-> "actionStart", key |-> 1, msg |-> 0]}
    \cup {[type |-> "broadcast", key |-> None, msg |-> m] : m \in Msgs}

NextHub ==
    \/ \E c \in Clients : Accept(c)
    \/ \E c \in Clients, f \in HubFrames : RecvFrame(c, f)
    \/ \E c \in Clients, n \in ShortStepCounts : DispatchStart(c, n)
    \/ \E c \in Clients : DispatchBroadcast(c)
    \/ \E c \in Clients : BroadcastDeliver(c)
    \/ \E c \in Clients : ExitEndOfStream(c)
    \/ \E c \in Clients : ExitConnectionClosed(c)
    \/ \E c \in Clients : Disconnect(c)
    \/ \E t \in TaskIds : PlaybackStart(t)
    \/ \E t \in TaskIds : PlaybackWake(t)
    \/ \E t \in TaskIds : PlaybackSendDone(t)
    \/ \E t \in TaskIds : PlaybackSendFails(t)
    \/ \E t \in TaskIds : PlaybackSendCancelled(t)
    \/ \E t \in TaskIds : PlaybackEndDone(t)

SpecHub == Init /\ [][NextHub]_vars

\* One session on its own: a single connection, every frame but broadcast
\* (which has no recipient here), every way the handler can end.
SoloClients == {c \in Clients : \A d \in Clients : c <= d}
SoloFrames == {f \in Frames : f.type # "broadcast"}

NextSolo ==
    \/ \E c \in SoloClients : Accept(c)
    \/ \E c \in SoloClients, f \in SoloFrames : RecvFrame(c, f)
    \/ \E c \in SoloClients : RecvNonObject(c)
    \/ \E c \in SoloClients : DispatchInvalid(c)
    \/ \E c \in SoloClients, n \in ShortStepCounts : DispatchStart(c, n)
    \/ \E c \in SoloClients : Dispatch(c)
    \/ \E c \in SoloClients : ExitEndOfStream(c)
    \/ \E c \in SoloClients : ExitConnectionClosed(c)
    \/ \E c \in SoloClients : ExitCancelled(c)
    \/ \E c \in SoloClients : Disconnect(c)
    \/ \E t \in TaskIds : PlaybackStart(t)
    \/ \E t \in TaskIds : PlaybackWake(t)
    \/ \E t \in TaskIds : PlaybackSendDone(t)
    \/ \E t \in TaskIds : PlaybackSendFails(t)
    \/ \E t \in TaskIds : PlaybackSendCancelled(t)
    \/ \E t \in TaskIds : PlaybackEndDone(t)

SpecSolo == Init /\ [][NextSolo]_vars

\* The single session under a fair event loop: a task that is ready to run is
\* run, every send and every delay returns (or raises).
PlaybackFair ==
    \A t \in TaskIds :
        /\ WF_vars(PlaybackStart(t))
        /\ WF_vars(PlaybackWake(t))
        /\ WF_vars(PlaybackSendDone(t))
        /\ WF_vars(PlaybackSendCancelled(t))
        /\ WF_vars(PlaybackEndDone(t))

SpecSoloFair == SpecSolo /\ PlaybackFair

\* One playback at a time on one connection, with every step count
\* random.randint can draw: the frames are actionStart with a usable key, and
\* the client sends one only when no playback of an earlier one is running.
PlaybackFrames == {f \in Frames : f.type = "actionStart" /\ ~Falsy(f.key)}

RecvWhenQuiet(c, f) ==
    /\ \A t \in TaskIds : task[t].pc = "free"
    /\ RecvFrame(c, f)

NextPlayback ==
    \/ \E c \in SoloClients : Accept(c)
    \/ \E c \in SoloClients, f \in PlaybackFrames : RecvWhenQuiet(c, f)
    \/ \E c \in SoloClients, n \in AllStepCounts : DispatchStart(c, n)
    \/ \E c \in SoloClients : ExitEndOfStream(c)
    \/ \E c \in SoloClients : ExitConnectionClosed(c)
    \/ \E c \in SoloClients : Disconnect(c)
    \/ \E t \in TaskIds : PlaybackStart(t)
    \/ \E t \in TaskIds : PlaybackWake(t)
    \/ \E t \in TaskIds : PlaybackSendDone(t)
    \/ \E t \in TaskIds : PlaybackSendFails(t)
    \/ \E t \in TaskIds : PlaybackSendCancelled(t)
    \/ \E t \in TaskIds : PlaybackEndDone(t)

SpecPlayback == Init /\ [][NextPlayback]_vars

\* ---- sanity of the model's own bookkeeping ----
TypeOK ==
    /\ conn \in [Clients -> {"open", "closed"}]
    /\ hpc \in [Clients -> {"init", "idle", "acked", "errack", "bcast", "done"}]
    /\ connected_clients \subseteq Clients
    /\ DOMAIN client_playback_tasks \subseteq Clients
    /\ DOMAIN client_current_playing \subseteq Clients
    /\ \A c \in DOMAIN client_playback_tasks : \A k \in DOMAIN client_playback_tasks[c] :
          LET t == client_playback_tasks[c][k]
          IN t \in TaskIds /\ task[t].pc # "free" /\ task[t].client = c /\ task[t].key = k

\* ---- vocabulary of the properties ----
WellFormed(f) == f.type \in KeyedTypes \cup PlainTypes
Live(t) == task[t].pc # "free"
TasksOf(c) == {t \in TaskIds : Live(t) /\ task[t].client = c}
TableOf(c) == IF c \in DOMAIN client_playback_tasks THEN client_playback_tasks[c] ELSE EmptyDict
PointerOf(c) == IF c \in DOMAIN client_current_playing THEN client_current_playing[c] ELSE None
\* the events the step wrote on connection c on behalf of handler c
Replies(c) == {e \in ev' : e.by = c /\ e.type # "ack"}
SessionUnchanged(c) ==
    /\ TableOf(c)' = TableOf(c)
    /\ PointerOf(c)' = PointerOf(c)
    /\ (c \in DOMAIN client_playback_tasks)' = (c \in DOMAIN client_playback_tasks)
    /\ task' = task

\* C1: for every well-formed command exactly one ack with status 'processed'
\* is written on the sender's connection, in a step that precedes every step
\* in which the command's handler writes an event or changes server state.
C1_AckFirst ==
    [][\A c \in Clients :
          /\ acks[c] <= 1
          /\ hpc[c] \in {"acked", "bcast"} => acks[c] = 1
          /\ (WellFormed(frame[c]) /\ (Replies(c) # {} \/ c \in eff')) =>
                /\ acks[c] = 1
                /\ \A e \in ev' : e.by = c => e.type # "ack"
          /\ (hpc[c] = "idle" /\ hpc'[c] = "acked") =>
                /\ ev' = {Event(c, "ack", "processed", None, 0, 0, c)}
                /\ eff' = {}
                /\ SessionUnchanged(c)]_vars

C1_Witness ==
    \E c \in Clients : \E e \in ev :
        /\ e.by = c /\ e.type = "actionStopAck"
        /\ c \in eff
        /\ hpc[c] = "idle"

\* C2: a frame that is not a JSON object (not JSON at all, or JSON of another
\* type) is answered with an ack of status 'error' and then an error event,
\* dispatches nothing, leaves the session unchanged and keeps the handler
\* reading frames.
C2_MalformedRecovered ==
    [][\A c \in Clients :
          /\ (hpc[c] = "idle" /\ nframes' = nframes + 1 /\ frame'[c].type \in BadTypes) =>
                /\ ev' = {ErrorAck(c)}
                /\ hpc'[c] = "errack"
                /\ teardowns'[c] = 0
                /\ SessionUnchanged(c)
          /\ (hpc[c] = "errack" /\ hpc'[c] = "idle") =>
                /\ ev' = {InvalidJson(c)}
                /\ SessionUnchanged(c)]_vars

\* C3: an accepted actionStart cancels the task of the session's current
\* action group, and a superseded task writes no progress event afterwards.
C3_NoProgressAfterRestart ==
    [][/\ \A e \in ev' : e.type = "progress" => ~task[e.task].sup
       /\ \A t \in TaskIds : task'[t].sup => task'[t].was]_vars

C3_Witness ==
    \E t, u \in TaskIds :
        /\ task[t].sup /\ task[t].pc = "send"
        /\ task[u].pc = "send" /\ ~task[u].was
        /\ task[u].client = task[t].client /\ task[u].key = task[t].key

\* C4: a cancelled playback task writes no further progress and no actionEnd.
C4_CancelledIsSilent ==
    [][\A e \in ev' : e.type \in {"progress", "actionEnd"} => ~task[e.task].was]_vars

\* C5: per session and key at most one playback loop can still write events,
\* and it is the one recorded in the session's task table.
CanStillSend(t) ==
    /\ task[t].pc \in {"new", "sleep", "send"}
    /\ HasTask(Server, task[t].client, task[t].key)
    /\ task[t].cancel => task[t].pc = "send"

C5_OneLoopPerKey ==
    \A t \in TaskIds : CanStillSend(t) =>
        client_playback_tasks[task[t].client][task[t].key] = t

\* C6: every actionReset handled on an open connection is answered with
\* exactly one actionResetAck with actionGroupID 0 and leaves the task table
\* empty and the pointer cleared.
C6_ResetAlwaysAcked ==
    [][\A c \in Clients :
          (/\ hpc[c] = "acked" /\ frame[c].type = "actionReset"
           /\ conn[c] = "open" /\ hpc'[c] = "idle") =>
              /\ ev' = {Event(c, "actionResetAck", "reset", 0, 0, 0, c)}
              /\ DOMAIN TableOf(c)' = {}
              /\ PointerOf(c)' = None]_vars

\* C7: actionStop for a key without a task is answered with one error event
\* naming the key and changes nothing; for a key with a task it cancels and
\* removes the task, clears the pointer if it matched and writes one
\* actionStopAck, after which the key has no task.
C7_StopContract ==
    [][\A c \in Clients :
          (/\ hpc[c] = "acked" /\ frame[c].type = "actionStop"
           /\ frame[c].key # None /\ hpc'[c] = "idle") =>
              LET k == frame[c].key
              IN IF HasTask(Server, c, k)
                 THEN /\ ev' = {Event(c, "actionStopAck", "stopped", k, 0, 0, c)}
                      /\ task'[client_playback_tasks[c][k]].was
                      /\ k \notin DOMAIN TableOf(c)'
                      /\ PointerOf(c)' # k
                      /\ PointerOf(c) # k => PointerOf(c)' = PointerOf(c)
                 ELSE /\ ev' = {Event(c, "error", "not-found", k, 0, 0, c)}
                      /\ SessionUnchanged(c)]_vars

\* C8: once a connection has ended no event is written on it; when its
\* handler has ended, all tasks of its session are cancelled and it is out of
\* the registry, so later broadcasts are not fanned out to it, while every
\* open connection a broadcast was fanned out to still receives it.
C8_EndedConnectionSilent ==
    [][/\ \A e \in ev' : conn[e.conn] = "open" /\ hpc[e.conn] # "done"
       /\ \A c \in Clients : hpc'[c] = "done" =>
              /\ c \notin connected_clients'
              /\ \A t \in TaskIds : (task'[t].pc # "free" /\ task'[t].client = c) => task'[t].was
       /\ \A s \in Clients :
              /\ (hpc[s] = "acked" /\ hpc'[s] = "bcast") =>
                    /\ bpend'[s] = connected_clients \ {s}
                    /\ \A r \in bpend'[s] : hpc[r] # "done"
              /\ (hpc[s] = "bcast" /\ hpc'[s] = "idle") =>
                    \A r \in bpend[s] :
                        conn[r] = "open" => BroadcastMsg(r, s, frame[s]) \in ev'
      ]_vars

C8_Witness ==
    \E a, b, r \in Clients :
        /\ a # b /\ a # r /\ b # r
        /\ hpc[a] = "done"
        /\ \E t \in TasksOf(a) : task[t].cancel
        /\ \E e \in ev : e.type = "broadcast" /\ e.conn = r /\ e.by = b

\* C9: the finally block of handle_client runs exactly once per accepted
\* connection, whichever way the handler ends, and leaves no session state.
C9_TeardownOnce ==
    \A c \in Clients :
        /\ teardowns[c] <= 1
        /\ teardowns[c] = 1 <=> hpc[c] = "done"
        /\ hpc[c] = "done" =>
              /\ c \notin connected_clients
              /\ c \notin DOMAIN client_playback_tasks
              /\ c \notin DOMAIN client_current_playing
              /\ \A t \in TasksOf(c) : task[t].was
        /\ hpc[c] \in {"idle", "acked", "errack", "bcast"} =>
              /\ c \in connected_clients
              /\ c \in DOMAIN client_current_playing

C9_Witness ==
    \E c \in Clients :
        /\ hpc[c] = "done" /\ teardowns[c] = 1
        /\ \E t \in TasksOf(c) : task[t].cancel /\ task[t].pc = "sleep"

\* C10: a connection whose broadcast send failed does not stay in the
\* registry (it is removed and its session torn down).
C10_FailedRecipientDropped ==
    \A r \in bfail : r \notin connected_clients /\ TasksOf(r) = {}

\* C11: a broadcast from connection s is fanned out to exactly the
\* connections registered at that moment other than s; every one of them that
\* is still open gets one broadcast event with the frame's message and s as
\* from_client; s gets no event from its own broadcast.
C11_BroadcastReach ==
    [][\A s \in Clients :
          /\ (hpc[s] = "acked" /\ frame[s].type = "broadcast" /\ hpc'[s] = "bcast") =>
                /\ bpend'[s] = connected_clients \ {s}
                /\ ev' = {}
          /\ (hpc[s] = "acked" /\ frame[s].type = "broadcast" /\ hpc'[s] = "idle") =>
                /\ connected_clients \ {s} = {}
                /\ ev' = {}
          /\ (hpc[s] = "bcast" /\ hpc'[s] = "idle") =>
                ev' = {[conn |-> r, type |-> "broadcast", st |-> "", key |-> None,
                        task |-> 0, val |-> frame[s].msg, by |-> s] :
                       r \in {x \in bpend[s] : conn[x] = "open"}}
          /\ \A e \in ev' : e.type = "broadcast" => e.conn # e.by]_vars

C11_Witness ==
    \E s, r1, r2 \in Clients :
        /\ r1 # r2 /\ r1 # s /\ r2 # s
        /\ handled = {[by |-> s, frame |-> [type |-> "broadcast", key |-> None, msg |-> MaxMsg]]}
        /\ {e.conn : e \in {x \in ev : x.type = "broadcast" /\ x.by = s /\ x.val = MaxMsg}} = {r1, r2}

\* C12: a playback draws n in MinSteps..MaxSteps; its i-th progress event
\* (from 0, in order, none skipped) has the value min(100, (i+1)*100/n),
\* larger than the one before; the n-th is exactly 100; a playback that was
\* not cancelled and whose connection is open then writes one actionEnd with
\* value 100, after all n progress events, and nothing after it.
C12_ProgressSequence ==
    [][/\ \A e \in ev' : e.type = "progress" =>
              LET t == e.task
                  n == task'[t].n
                  i == task'[t].i
              IN /\ n \in MinSteps..MaxSteps
                 /\ i \in 0..(n - 1)
                 /\ e.val * n <= (i + 1) * 100 * Scale
                 /\ (i + 1) * 100 * Scale < (e.val + 1) * n
                 /\ (i = n - 1) <=> (e.val = 100 * Scale)
                 /\ IF task[t].pc = "sleep"
                    THEN i = task[t].i + 1 /\ n = task[t].n /\ e.val > ProgressValue(task[t].i, n)
                    ELSE i = 0 /\ task[t].pc = "new"
       /\ \A t \in TaskIds :
              (/\ task[t].pc = "sleep" /\ ~task[t].cancel /\ task[t].i = task[t].n - 1
               /\ conn[task[t].client] = "open" /\ task'[t].pc # "sleep") =>
                  ev' = {[conn |-> task[t].client, type |-> "actionEnd", st |-> "",
                          key |-> task[t].key, task |-> t, val |-> 100 * Scale, by |-> 0]}
       /\ \A e \in ev' : (e.type = "actionEnd" /\ ~task[e.task].was) =>
              /\ task[e.task].pc = "sleep"
              /\ task[e.task].i = task[e.task].n - 1
              /\ e.val = 100 * Scale
       /\ \A t \in TaskIds : task[t].pc = "sendEnd" => \A e \in ev' : e.task # t]_vars

C12_Witness ==
    \E e \in ev :
        /\ e.type = "actionEnd"
        /\ task[e.task].pc = "sendEnd"
        /\ ~task[e.task].was
        /\ task[e.task].n = MaxSteps

\* C13: a connection is in the registry exactly when its session state (its
\* entry in the task tables and its current pointer) exists.
C13_RegistryMirrorsSessions ==
    \A c \in Clients :
        /\ c \in connected_clients =>
              c \in DOMAIN client_playback_tasks /\ c \in DOMAIN client_current_playing
        /\ c \notin connected_clients =>
              c \notin DOMAIN client_playback_tasks /\ c \notin DOMAIN client_current_playing

\* C14: an actionStart or actionStop frame without actionGroupID is answered,
\* after its ack, with exactly one error event ("missing actionGroupID");
\* no task is created or cancelled, table and pointer stay as they were.
C14_MissingKeyRejected ==
    [][\A c \in Clients :
          (/\ hpc[c] = "acked" /\ frame[c].type \in KeyedTypes
           /\ frame[c].key = None /\ hpc'[c] = "idle") =>
              /\ acks[c] = 1
              /\ ev' = {[conn |-> c, type |-> "error", st |-> "missing", key |-> None,
                         task |-> 0, val |-> 0, by |-> c]}
              /\ SessionUnchanged(c)
              /\ connected_clients' = connected_clients]_vars

C14_Witness ==
    \E c \in Clients :
        /\ handled = {[by |-> c, frame |-> [type |-> "actionStart", key |-> None, msg |-> 0]]}
        /\ \E e \in ev : e.type = "error" /\ e.conn = c
        /\ hpc[c] = "idle"
        /\ \E t \in TasksOf(c) : ~task[t].was /\ PointerOf(c) = task[t].key

\* C15: an actionStart whose actionGroupID is present, whatever its value,
\* registers a task under that key, makes it current and is answered with
\* actionStartAck.
C15_AnyKeyStarts ==
    [][\A c \in Clients :
          (/\ hpc[c] = "acked" /\ frame[c].type = "actionStart"
           /\ frame[c].key # None /\ hpc'[c] = "idle") =>
              /\ \E e \in ev' : e.type = "actionStartAck" /\ e.key = frame[c].key
              /\ frame[c].key \in DOMAIN TableOf(c)'
              /\ PointerOf(c)' = frame[c].key]_vars

C17_EchoAnswered ==
    [][\A c \in Clients :
          (/\ hpc[c] = "acked" /\ frame[c].type = "echo"
           /\ handled' = {[by |-> c, frame |-> frame[c]]} /\ conn[c] = "open") =>
              /\ acks[c] = 1
              /\ ev' = {[conn |-> c, type |-> "echo_response", st |-> "", key |-> None,
                         task |-> 0, val |-> frame[c].msg, by |-> c]}
              /\ eff' = {}
              /\ SessionUnchanged(c)
              /\ connected_clients' = connected_clients
              /\ hpc'[c] = "idle"]_vars

C17_Witness ==
    \E c, d \in Clients :
        /\ c # d
        /\ handled = {[by |-> c, frame |-> [type |-> "echo", key |-> None, msg |-> MaxMsg]]}
        /\ \E e \in ev : e.type = "echo_response" /\ e.val = MaxMsg /\ e.conn = c
        /\ d \in connected_clients /\ conn[d] = "open"

\* C18: when the send of a progress event raises, the task makes no further
\* send attempt (no progress, no actionEnd) and is done; the step leaves the
\* handlers, the registry, every other task and every other session as they
\* were.
C18_FailedSendEndsTask ==
    [][\A e \in failed' : e.type = "progress" =>
          /\ \A x \in ev' \cup failed' : x.task = e.task => x = e
          /\ task'[e.task].pc = "free"
          /\ hpc' = hpc /\ teardowns' = teardowns /\ connected_clients' = connected_clients
          /\ \A u \in TaskIds : u # e.task => task'[u] = task[u]
          /\ \A d \in Clients : d # e.conn =>
                TableOf(d)' = TableOf(d) /\ PointerOf(d)' = PointerOf(d)]_vars

\* C19: a task writes actionEnd only as the completion of a run that was not
\* cancelled and whose last progress event had the value 100; after its
\* actionEnd it writes nothing, and when it is done its key has no entry in
\* the session's table and is not the current pointer.
C19_EndOnlyAfterFullProgress ==
    [][/\ \A e \in ev' : e.type = "actionEnd" =>
              /\ ~task[e.task].was
              /\ task[e.task].pc \in {"send", "sleep"}
              /\ task[e.task].i = task[e.task].n - 1
       /\ \A t \in TaskIds : task[t].pc = "sendEnd" =>
              /\ \A e \in ev' : e.task # t
              /\ task'[t].pc = "free" =>
                    /\ task[t].key \notin DOMAIN TableOf(task[t].client)'
                    /\ PointerOf(task[t].client)' # task[t].key]_vars

\* C20: the dispatch of an actionStart with a usable key G is one step in
\* which every live task of the session's current key is cancelled and that
\* key leaves the table, a new task is created and entered under G and the
\* pointer becomes G; on an open connection the step writes exactly one
\* actionStartAck for G.  No state has a new task that is not yet in the
\* table or not yet current.
C20_StartRegisters ==
    [][/\ \A c \in Clients :
             (/\ hpc[c] = "acked" /\ frame[c].type = "actionStart" /\ ~Falsy(frame[c].key)
              /\ handled' = {[by |-> c, frame |-> frame[c]]}) =>
                 LET G == frame[c].key
                     P == PointerOf(c)
                 IN /\ \A t \in TasksOf(c) : task[t].key = P =>
                          /\ task'[t].was
                          /\ G \in DOMAIN TableOf(c)' => TableOf(c)'[G] # t
                    /\ conn[c] = "open" =>
                          /\ hpc'[c] = "idle"
                          /\ DOMAIN TableOf(c)' = (DOMAIN TableOf(c) \ {P}) \cup {G}
                          /\ LET u == TableOf(c)'[G]
                             IN /\ task[u].pc = "free"
                                /\ task'[u].pc = "new" /\ ~task'[u].was
                                /\ task'[u].client = c /\ task'[u].key = G
                                /\ ev' = {[conn |-> c, type |-> "actionStartAck",
                                           st |-> "started", key |-> G, task |-> u,
                                           val |-> 0, by |-> c]}
                          /\ PointerOf(c)' = G
       /\ \A t \in TaskIds : (task'[t].pc = "new" /\ ~task'[t].was) =>
             /\ task'[t].client \in DOMAIN client_playback_tasks'
             /\ task'[t].key \in DOMAIN client_playback_tasks'[task'[t].client]
             /\ client_playback_tasks'[task'[t].client][task'[t].key] = t
             /\ client_current_playing'[task'[t].client] = task'[t].key]_vars

C20_Witness ==
    \E c \in Clients : \E t, u \in TaskIds :
        /\ handled = {[by |-> c, frame |-> [type |-> "actionStart", key |-> MaxKey, msg |-> 0]]}
        /\ hpc[c] = "idle"
        /\ task[t].pc # "free" /\ task[t].client = c /\ task[t].was /\ task[t].key # MaxKey
        /\ task[u].pc = "new" /\ TableOf(c)[MaxKey] = u /\ PointerOf(c) = MaxKey

\* C21: under a fair event loop every playback task that was started is
\* eventually done, and the table entry that names it is eventually gone.
InTable(t) ==
    \E c \in DOMAIN client_playback_tasks : \E k \in DOMAIN client_playback_tasks[c] :
        client_playback_tasks[c][k] = t

C21_TasksEnd ==
    \A t \in TaskIds :
        /\ (Live(t) ~> ~Live(t))
        /\ (InTable(t) ~> ~InTable(t))

C21_Witness ==
    \E t \in TaskIds : \E e \in ev :
        /\ e.type = "actionEnd" /\ e.task = t
        /\ task[t].pc = "sendEnd" /\ ~task[t].was
        /\ InTable(t)

\* C22: while a playback task is suspended in its delay, every receive loop
\* that has a frame to read (an actionStop or an echo, say), to dispatch or
\* to fan out can take that step, and so can every other playback task:
\* nothing waits for the delay.
C22_DelayDoesNotBlock ==
    \A t \in TaskIds : task[t].pc = "sleep" =>
        /\ \A c \in SessionClients :
               /\ (hpc[c] = "idle" /\ conn[c] = "open" /\ nframes < MaxFrames) =>
                      \A f \in Frames :
                          f.type \in {"actionStop", "echo"} => ENABLED RecvFrame(c, f)
               /\ (/\ hpc[c] = "acked"
                   /\ (frame[c].type = "actionStart" /\ ~Falsy(frame[c].key)) =>
                          \E u \in TaskIds : task[u].pc = "free") =>
                      ENABLED (\/ Dispatch(c)
                               \/ DispatchBroadcast(c)
                               \/ \E n \in ShortStepCounts : DispatchStart(c, n))
               /\ hpc[c] = "errack" => ENABLED DispatchInvalid(c)
               /\ hpc[c] = "bcast" => ENABLED BroadcastDeliver(c)
        /\ \A u \in TaskIds \ {t} :
               /\ task[u].pc = "new" => ENABLED PlaybackStart(u)
               /\ task[u].pc = "sleep" => ENABLED PlaybackWake(u)
               /\ task[u].pc = "send" =>
                      ENABLED (PlaybackSendDone(u) \/ PlaybackSendCancelled(u))
               /\ task[u].pc = "sendEnd" => ENABLED PlaybackEndDone(u)

C22_Witness ==
    \E t \in TaskIds : \E d \in Clients :
        /\ task[t].pc = "sleep" /\ ~task[t].was
        /\ handled = {[by |-> task[t].client,
                        frame |-> [type |-> "echo", key |-> None, msg |-> MaxMsg]]}
        /\ \E e \in ev : e.type = "echo_response" /\ e.conn = task[t].client
        /\ d # task[t].client /\ hpc[d] = "idle" /\ conn[d] = "open"

\* C23: a receive loop reads a frame only when the frame before it is
\* finished: its ack written, its state changes made, its responses sent,
\* its fan-out gathered.  Acks are written only by the read of a frame,
\* responses only while that frame is being processed.
C23_FramesInOrder ==
    [][\A c \in Clients :
          /\ (nframes' = nframes + 1 /\ frame'[c] # frame[c]) =>
                /\ hpc[c] = "idle"
                /\ frame[c] = NoFrame
                /\ bpend[c] = {}
                /\ acks[c] = 0
          /\ \A e \in ev' : (e.by = c /\ e.type = "ack") =>
                /\ hpc[c] = "idle"
                /\ ev' = {e}
                /\ eff' = {}
          /\ \A e \in ev' : (e.by = c /\ e.type \notin {"ack", "welcome"}) =>
                /\ hpc[c] \in {"acked", "errack", "bcast"}
                /\ hpc'[c] = "idle"
                /\ frame'[c] = NoFrame
          /\ c \in eff' => hpc[c] = "acked"]_vars

C23_Witness ==
    \E c \in Clients :
        /\ nframes = MaxFrames
        /\ hpc[c] = "acked"
        /\ \E e \in ev : e.type = "ack" /\ e.by = c
        /\ \E t \in TasksOf(c) : task[t].pc = "send"

\* C24: when the send to a recipient of a broadcast fails, every recipient
\* that is open still gets the broadcast, the sender's handler goes on to its
\* next frame on an unchanged connection, no handler is torn down and no task
\* and no table changes.
C24_FanOutSurvivesFailure ==
    [][\A s \in Clients :
          (/\ hpc[s] = "bcast" /\ hpc'[s] # "bcast"
           /\ \E r \in bpend[s] : conn[r] # "open") =>
              /\ hpc'[s] = "idle"
              /\ conn' = conn
              /\ teardowns' = teardowns
              /\ \A r \in bpend[s] : conn[r] = "open" =>
                    \E e \in ev' : /\ e.type = "broadcast" /\ e.conn = r
                                    /\ e.by = s /\ e.val = frame[s].msg
              /\ task' = task
              /\ client_playback_tasks' = client_playback_tasks
              /\ client_current_playing' = client_current_playing]_vars

C24_Witness ==
    \E s, r1, r2 \in Clients :
        /\ r1 # r2 /\ r1 # s /\ r2 # s
        /\ bfail = {r1}
        /\ \E e \in ev : e.type = "broadcast" /\ e.conn = r2 /\ e.by = s
        /\ hpc[s] = "idle" /\ conn[s] = "open"
        /\ \E t \in TaskIds : Live(t) /\ ~task[t].was

\* C25: a task superseded by a restart of its own key (the table holds another
\* task under that key) writes no actionEnd, and its steps leave the table,
\* the pointer and every other task of the session as they were.
C25_SupersededStaysOut ==
    [][\A t \in TaskIds :
          (/\ task[t].sup
           /\ HasTask(Server, task[t].client, task[t].key)
           /\ client_playback_tasks[task[t].client][task[t].key] # t) =>
              /\ \A e \in ev' : (e.by = 0 /\ e.task = t) => e.type # "actionEnd"
              /\ task'[t].pc # task[t].pc =>
                    /\ client_playback_tasks' = client_playback_tasks
                    /\ client_current_playing' = client_current_playing
                    /\ \A u \in TaskIds \ {t} : task'[u] = task[u]]_vars

\* C26: a session's task table never holds more than one entry; it holds one
\* exactly when the current pointer is set, and then under the pointer's key.
C26_OneEntryAtPointer ==
    \A c \in Clients :
        /\ Cardinality(DOMAIN TableOf(c)) <= 1
        /\ (DOMAIN TableOf(c) # {}) <=> (PointerOf(c) # None)
        /\ PointerOf(c) # None => DOMAIN TableOf(c) = {PointerOf(c)}

C26_Witness ==
    \E c \in Clients : \E t, u \in TaskIds :
        /\ DOMAIN TableOf(c) = {MaxKey} /\ TableOf(c)[MaxKey] = u /\ PointerOf(c) = MaxKey
        /\ task[t].client = c /\ Live(t) /\ task[t].was /\ task[t].key # MaxKey

\* C27: a step of session a (of its receive loop, teardown included, or of
\* one of its playback tasks) leaves the table, the pointer and the tasks of
\* every other session as they were, whatever keys the sessions use.
C27_SessionsIsolated ==
    [][\A a, b \in Clients :
          (/\ a # b
           /\ \/ hpc'[a] # hpc[a]
              \/ \E x \in handled' : x.by = a
              \/ \E t \in TaskIds : /\ task[t].pc # "free" /\ task[t].client = a
                                      /\ task'[t].pc # task[t].pc) =>
              /\ TableOf(b)' = TableOf(b)
              /\ PointerOf(b)' = PointerOf(b)
              /\ (b \in DOMAIN client_playback_tasks)' = (b \in DOMAIN client_playback_tasks)
              /\ (b \in connected_clients)' = (b \in connected_clients)
              /\ \A u \in TaskIds :
                    (task[u].pc # "free" /\ task[u].client = b) => task'[u] = task[u]]_vars

C27_Witness ==
    \E a, b \in Clients : \E t, u \in TaskIds :
        /\ a # b
        /\ hpc[a] = "done"
        /\ task[t].client = a /\ Live(t) /\ task[t].was
        /\ task[u].client = b /\ Live(u) /\ ~task[u].was /\ task[u].key = task[t].key
        /\ b \in DOMAIN client_playback_tasks
        /\ task[u].key \in DOMAIN client_playback_tasks[b]
        /\ PointerOf(b) = task[u].key

\* C28: the welcome is written in the step that registers the connection, so
\* it is the first event on the connection: every other event goes to a
\* connection that has been welcomed, and a fan-out only reaches welcomed
\* connections.
C28_WelcomeFirst ==
    [][/\ \A e \in ev' :
             IF e.type = "welcome"
             THEN /\ hpc[e.conn] = "init"
                  /\ ev' = {e}
                  /\ e.conn \notin connected_clients
                  /\ e.conn \in connected_clients'
             ELSE hpc[e.conn] # "init"
       /\ \A c \in Clients :
             /\ (hpc[c] = "init" /\ hpc'[c] = "idle") =>
                   \E e \in ev' : e.type = "welcome" /\ e.conn = c
             /\ c \in connected_clients' => hpc'[c] # "init"
             /\ \A r \in bpend'[c] : hpc'[r] # "init"]_vars

C28_Witness ==
    \E c, s \in Clients :
        /\ \E e \in ev : e.type = "welcome" /\ e.conn = c
        /\ c \in connected_clients
        /\ hpc[s] = "bcast" /\ bpend[s] # {} /\ c \notin bpend[s]

====
